---- MODULE Spec2Model ----
(***************************************************************************)
(* Silvia PID: the control process (pid-process.js) and the mode           *)
(* controller of the command interface (web-server.js).                    *)
(*                                                                         *)
(* Units: temperatures are tenths of a degree Celsius (100.0 C = 1000),    *)
(* PID gains are hundredths (4.0 = 400, 0.05 = 5), time is milliseconds,   *)
(* duty is the 8-bit PWM value.                                            *)
(***************************************************************************)
EXTENDS Integers, Sequences, FiniteSets, TLC

\* ------------------------------------------------------------------ bounds
\* reads of the sensor started in a run, and the timer firings that leave room
\* for one of them to run into the 5 s timeout
MaxReads == 2
MaxNowSteps == MaxReads + 4
\* replacements of config.json by other processes
MaxConfigWrites == 1
\* set_mode requests sent to the web server
MaxModeOps == 3
\* time passes in the web server while fewer than this many seconds have passed
MaxModeSeconds == 30
MaxCmdOps == 3
ClassReads == 10
BufferReads == 101
RecoveryReads == 10
ExitReads == 11
ReloadReads == 21
MaxReloadOps == 1
MaxLoadOps == 1
MaxFrameOps == 2
StoreReads == 13
HangReads == 2
HangSteps == 6 * HangReads
MaxLoadSeconds == 20
\* sensor reads in the runs of failed reads, and around the heating threshold
FailReads == 6
HeatReads == 3

\* ------------------------------------------------- constants of the source
MIN_TEMP == 0
MAX_TEMP_READING == 2000
MAX_SAFE_TEMP == 1600
TEMP_READ_TIMEOUT == 5000
MAX_CONSECUTIVE_FAILURES == 5
TEMP_HISTORY_SIZE == 60
RECOVERY_DROP_THRESHOLD == 50
RECOVERY_WINDOW_SECONDS == 60
BATCH_SIZE == 10
OFF_STATE_RECORDING_INTERVAL_MS == 3 * 60 * 1000
STATE_UPDATE_THROTTLE_MS == 5000
STATE_DETECTION_WINDOW_MS == 60 * 1000
MIN_TEMP_FOR_HEATING == 400
MIN_TEMP_RISE == 10
MIN_TEMP_FALL == -3
MAX_OUTPUT == 255
TICK_PERIOD_MS == 1000
RELOAD_PERIOD_MS == 10000
STEAM_TIMEOUT_MS == 5 * 60 * 1000
\* Date.now() when the process starts (any instant far from the epoch)
StartTime == 1000 * 1000

\* ------------------------------------------------------------ JSON values
Num(v) == [t |-> "num", v |-> v]
Str == [t |-> "str", v |-> 0]
Missing == [t |-> "missing", v |-> 0]

\* typeof x === 'number' && x >= lo && x <= hi
ValidNumber(x, lo, hi) == x.t = "num" /\ x.v >= lo /\ x.v <= hi

\* typeof x === 'number' ? x : cur     (the reload interval's comparison)
NumberOr(x, cur) == IF x.t = "num" THEN x.v ELSE cur

\* JavaScript  a || b  on a JSON value: undefined and 0 are falsy
JsOr(x, def) == IF x.t = "missing" \/ (x.t = "num" /\ x.v = 0) THEN Num(def) ELSE x

\* ------------------------------------------------------ the config document
GoodConfig ==
  [ok |-> TRUE,
   writable |-> TRUE,
   target_temperature |-> Num(1000),
   espresso_temperature |-> Num(1000),
   steam_temperature |-> Num(1400),
   proportional |-> Num(400),
   integral |-> Num(10),
   derivative |-> Num(500),
   recovery_proportional |-> Num(600),
   recovery_integral |-> Num(20),
   recovery_derivative |-> Num(800),
   machine_state |-> "unknown",
   machine_state_updated |-> 0,
   extra |-> Num(7)]

\* ok = FALSE: an unreadable or unparseable file (readFileSync / JSON.parse
\* throws); writable = FALSE: writeFileSync fails and so does the chmod retry
InitConfigs == { GoodConfig }

\* ------------------------------------------------------------- PID engine
\* new liquidPID({temp: {ref}, Pmax, Kp, Ki, Kd}): the zero state (age 0)
NewEngine(ref, kp, ki, kd) == [ref |-> ref, Kp |-> kp, Ki |-> ki, Kd |-> kd, age |-> 0]

\* the engine after one calculate(): integral and previous error are no
\* longer the zero state; age counts the steps since construction
Stepped(e) == [e EXCEPT !.age = @ + 1]

\* values Math.round(pidController.calculate(t)) can take: one below 0 and
\* one above MAX_OUTPUT here, values inside the range in HeatOutputs
PIDOutputs == {-20, 300}

\* --------------------------------------------------------- initializePID
NoLKG == [some |-> FALSE, target_temp |-> 0, proportional |-> 0, integral |-> 0,
          derivative |-> 0, recovery_proportional |-> 0, recovery_integral |-> 0,
          recovery_derivative |-> 0]

\* lastKnownGoodConfig?.field || def
LkgOr(lkg, v, def) == IF lkg.some /\ v # 0 THEN v ELSE def

\* the seven loaded values and the new last-known-good after initializePID()
LoadValues(cfg, lkg) ==
  IF cfg.ok THEN
    [some |-> TRUE,
     target_temp |-> IF ValidNumber(cfg.target_temperature, 0, 2000)
                     THEN cfg.target_temperature.v
                     ELSE LkgOr(lkg, lkg.target_temp, 1000),
     proportional |-> IF ValidNumber(cfg.proportional, 0, 1000)
                      THEN cfg.proportional.v ELSE LkgOr(lkg, lkg.proportional, 400),
     integral |-> IF ValidNumber(cfg.integral, 0, 500)
                  THEN cfg.integral.v ELSE LkgOr(lkg, lkg.integral, 10),
     derivative |-> IF ValidNumber(cfg.derivative, 0, 10000)
                    THEN cfg.derivative.v ELSE LkgOr(lkg, lkg.derivative, 500),
     recovery_proportional |-> IF ValidNumber(cfg.recovery_proportional, 0, 1000)
                               THEN cfg.recovery_proportional.v
                               ELSE LkgOr(lkg, lkg.recovery_proportional, 600),
     recovery_integral |-> IF ValidNumber(cfg.recovery_integral, 0, 500)
                           THEN cfg.recovery_integral.v
                           ELSE LkgOr(lkg, lkg.recovery_integral, 20),
     recovery_derivative |-> IF ValidNumber(cfg.recovery_derivative, 0, 10000)
                             THEN cfg.recovery_derivative.v
                             ELSE LkgOr(lkg, lkg.recovery_derivative, 800)]
  ELSE IF lkg.some THEN lkg
  ELSE [some |-> FALSE, target_temp |-> 1000, proportional |-> 250, integral |-> 5,
        derivative |-> 1000, recovery_proportional |-> 400, recovery_integral |-> 10,
        recovery_derivative |-> 1200]

\* ------------------------------------------------------------------ state
VARIABLES
  now,                    \* Date.now()
  configFile,             \* content of config.json
  boiler,                 \* the GPIO pin object exists
  gpioAvailable,
  pwm,                    \* duty last written with boiler.analogWrite, -1 before any write
  SSROutput,
  target_temp, proportional, integral, derivative,
  recovery_proportional, recovery_integral, recovery_derivative,
  lastKnownGoodConfig,
  pidController,
  inRecoveryPhase,
  temperatureHistory,
  consecutiveFailures,
  controlLoopRunning,
  readsInFlight,          \* getTemp promises not yet settled
  readStart,              \* when the pending read was spawned
  lingering,              \* children killed or failed to spawn whose 'close' is still to come
  writeBuffer,
  mongoConnected,
  pendingInserts,         \* batches handed to insertMany and not yet acknowledged
  lastOffStateRecording,
  lastMachineState, previousMachineState,
  pidResetOnHeatingStart,
  lastStateUpdateTime,
  reloadDue,              \* next firing of the 10 s reload interval
  currentMode, steamTimer, events,     \* web-server.js
  fx,                     \* what the last handler did, in order
  tickState,              \* classifier output of the last finished tick, "none" if it had none
  failedSinceValid,       \* failed reads since the last valid reading
  resetArmed,             \* no heating-start reset since the last tick classified off
  exited,                 \* the control process has ended
  reads, configWrites, cancelledDeadline, modeOps,  \* counters that bound the exploration
  reloadedFile,           \* config.json as the last run of the reload interval found it
  openWrite,              \* the document of an fs.writeFileSync of the web server that has opened config.json
  stored                  \* the documents of the temperatures collection, in the order written

pidVars == <<boiler, gpioAvailable, pwm, SSROutput, target_temp, proportional, integral, derivative,
             recovery_proportional, recovery_integral, recovery_derivative,
             lastKnownGoodConfig, pidController, inRecoveryPhase, temperatureHistory,
             consecutiveFailures, controlLoopRunning, readsInFlight, readStart, lingering,
             writeBuffer, mongoConnected, pendingInserts, lastOffStateRecording, lastMachineState,
             previousMachineState, pidResetOnHeatingStart, lastStateUpdateTime, reloadDue,
             tickState, failedSinceValid, resetArmed, exited, reads>>
webVars == <<currentMode, steamTimer, events, modeOps>>
vars == <<now, configFile, pidVars, webVars, fx, configWrites, cancelledDeadline, reloadedFile, openWrite, stored>>

\* the record of a handler run: kind of handler, reading, ordered effects
\* ("write", "step", "init", "heat_reset", "push", "classify", "publish",
\* "enqueue", "latch", "spawn"), the duties written, the engine age before each
\* calculate() and what the last one returned, the classifier output used by
\* the control loop in this tick and in the tick before it, the target the
\* setpoint override compared with; consecutiveFailures, currentMode and the
\* watchdog's deadline when the handler began
Fx(kind, temp) == [kind |-> kind, temp |-> temp, log |-> <<>>, writes |-> <<>>,
                   stepAges |-> <<>>, raw |-> 0, state |-> "none", prevState |-> "none",
                   target |-> -1, failuresBefore |-> consecutiveFailures,
                   modeBefore |-> currentMode, deadlineBefore |-> steamTimer.deadline,
                   armedBefore |-> resetArmed,
                   reply |-> [mode |-> "none", steam_time_remaining |-> [t |-> "null", v |-> 0]],
                   after |-> "none",
                   calls |-> <<>>,
                   recoveryBefore |-> inRecoveryPhase,
                   reloadedBefore |-> reloadedFile,
                   lkgBefore |-> lastKnownGoodConfig]

\* the state of pid-process.js that a handler reads and writes
PidState ==
  [configFile |-> configFile, gpioAvailable |-> gpioAvailable /\ boiler, pwm |-> pwm,
   SSROutput |-> SSROutput, target_temp |-> target_temp, proportional |-> proportional,
   integral |-> integral, derivative |-> derivative,
   recovery_proportional |-> recovery_proportional,
   recovery_integral |-> recovery_integral,
   recovery_derivative |-> recovery_derivative,
   lastKnownGoodConfig |-> lastKnownGoodConfig, pidController |-> pidController,
   inRecoveryPhase |-> inRecoveryPhase, temperatureHistory |-> temperatureHistory,
   consecutiveFailures |-> consecutiveFailures, writeBuffer |-> writeBuffer,
   mongoConnected |-> mongoConnected, pendingInserts |-> pendingInserts,
   lastOffStateRecording |-> lastOffStateRecording, lastMachineState |-> lastMachineState,
   previousMachineState |-> previousMachineState,
   pidResetOnHeatingStart |-> pidResetOnHeatingStart,
   lastStateUpdateTime |-> lastStateUpdateTime,
   rc |-> [shouldRecord |-> FALSE, state |-> "unknown"],
   fx |-> fx]

Commit(s) ==
  /\ configFile' = s.configFile
  /\ pwm' = s.pwm
  /\ SSROutput' = s.SSROutput
  /\ target_temp' = s.target_temp
  /\ proportional' = s.proportional
  /\ integral' = s.integral
  /\ derivative' = s.derivative
  /\ recovery_proportional' = s.recovery_proportional
  /\ recovery_integral' = s.recovery_integral
  /\ recovery_derivative' = s.recovery_derivative
  /\ lastKnownGoodConfig' = s.lastKnownGoodConfig
  /\ pidController' = s.pidController
  /\ inRecoveryPhase' = s.inRecoveryPhase
  /\ temperatureHistory' = s.temperatureHistory
  /\ consecutiveFailures' = s.consecutiveFailures
  /\ writeBuffer' = s.writeBuffer
  /\ pendingInserts' = s.pendingInserts
  /\ lastOffStateRecording' = s.lastOffStateRecording
  /\ lastMachineState' = s.lastMachineState
  /\ previousMachineState' = s.previousMachineState
  /\ pidResetOnHeatingStart' = s.pidResetOnHeatingStart
  /\ lastStateUpdateTime' = s.lastStateUpdateTime
  /\ fx' = s.fx

Log(s, tag) == [s EXCEPT !.fx.log = Append(@, tag)]

\* if (gpioAvailable && boiler) boiler.analogWrite(duty)
AnalogWrite(s, duty) ==
  IF s.gpioAvailable
  THEN [s EXCEPT !.pwm = duty, !.fx.log = Append(@, "write"), !.fx.writes = Append(@, duty)]
  ELSE s

\* initializePID(): reload the seven values, rebuild the engine
InitializePID(s) ==
  LET v == LoadValues(s.configFile, s.lastKnownGoodConfig)
      kp == IF s.inRecoveryPhase THEN v.recovery_proportional ELSE v.proportional
      ki == IF s.inRecoveryPhase THEN v.recovery_integral ELSE v.integral
      kd == IF s.inRecoveryPhase THEN v.recovery_derivative ELSE v.derivative
  IN [s EXCEPT !.target_temp = v.target_temp,
               !.proportional = v.proportional,
               !.integral = v.integral,
               !.derivative = v.derivative,
               !.recovery_proportional = v.recovery_proportional,
               !.recovery_integral = v.recovery_integral,
               !.recovery_derivative = v.recovery_derivative,
               !.lastKnownGoodConfig = IF s.configFile.ok THEN v ELSE @,
               !.pidController = NewEngine(v.target_temp, kp, ki, kd),
               !.fx.log = Append(@, "init")]

\* switchPIDMode(recovery)
switchPIDMode(s, recovery) ==
  IF recovery # s.inRecoveryPhase
  THEN InitializePID([s EXCEPT !.inRecoveryPhase = recovery])
  ELSE s

\* SSROutput = Math.round(pidController.calculate(temperature))
Calculate(s, raw) ==
  [s EXCEPT !.SSROutput = raw,
            !.pidController = Stepped(@),
            !.fx.log = Append(@, "step"),
            !.fx.raw = raw,
            !.fx.stepAges = Append(@, s.pidController.age)]

\* ------------------------------------------------------------- classifier
\* output > pct, where output = (SSROutput / MAX_OUTPUT) * 100
OutputOver(out, pct) == out * 100 > pct * MAX_OUTPUT

\* temperature >= lowerBound || temperature >= target_temp,
\* lowerBound = target_temp - target_temp * 0.02
AtTarget(temperature, target) ==
  temperature * 100 >= target * 98 \/ temperature >= target

Recent(history, cutoffTime) == SelectSeq(history, LAMBDA h : h.timestamp >= cutoffTime)

\* the branches that end in 'off': record once per 3 minutes
OffResult(t, lastOff) ==
  [shouldRecord |-> t - lastOff >= OFF_STATE_RECORDING_INTERVAL_MS, state |-> "off"]

ActiveResult(temperature, target) ==
  [shouldRecord |-> TRUE,
   state |-> IF AtTarget(temperature, target) THEN "ready" ELSE "heating"]

\* the heuristics used when the window holds too little history
SimpleHeuristics(temperature, out, target, t, lastOff) ==
  IF temperature > 800 THEN ActiveResult(temperature, target)
  ELSE IF AtTarget(temperature, target) THEN [shouldRecord |-> TRUE, state |-> "ready"]
  ELSE IF OutputOver(out, 20) /\ temperature > MIN_TEMP_FOR_HEATING
       THEN [shouldRecord |-> TRUE, state |-> "heating"]
  ELSE OffResult(t, lastOff)

\* the trend branch: the result of the 'Priority 1' if is p1; the if / else-if
\* chain that follows it assigns machineState and shouldRecord in every branch
TrendResult(oldestTemp, temperature, out, target, t, lastOff) ==
  LET tempChange == temperature - oldestTemp
      isRising == tempChange >= MIN_TEMP_RISE
      isFalling == tempChange <= MIN_TEMP_FALL
      p1 == IF isFalling /\ OutputOver(out, 10)
            THEN OffResult(t, lastOff)
            ELSE [shouldRecord |-> FALSE, state |-> "unknown"]
  IN IF temperature > 800 THEN ActiveResult(temperature, target)
     ELSE IF AtTarget(temperature, target) THEN [shouldRecord |-> TRUE, state |-> "ready"]
     ELSE IF isRising /\ temperature > MIN_TEMP_FOR_HEATING
          THEN [shouldRecord |-> TRUE, state |-> "heating"]
     ELSE IF OutputOver(out, 20)
          THEN IF temperature > MIN_TEMP_FOR_HEATING
               THEN [shouldRecord |-> TRUE, state |-> "heating"]
               ELSE OffResult(t, lastOff)
     ELSE OffResult(t, lastOff)

\* machineState and shouldRecord as shouldRecordReading computes them
Classify(history, temperature, out, target, t, lastOff) ==
  IF Len(history) >= 10
  THEN LET recentHistory == Recent(history, t - STATE_DETECTION_WINDOW_MS)
       IN IF Len(recentHistory) >= 2
          THEN TrendResult(recentHistory[1].temp, temperature, out, target, t, lastOff)
          ELSE SimpleHeuristics(temperature, out, target, t, lastOff)
  ELSE SimpleHeuristics(temperature, out, target, t, lastOff)

\* now - lastStateUpdateTime < STATE_UPDATE_THROTTLE_MS
Throttled(t, last) == t - last < STATE_UPDATE_THROTTLE_MS

\* updateMachineState(newState)
updateMachineState(s, newState, t) ==
  IF Throttled(t, s.lastStateUpdateTime) THEN s
  ELSE IF s.lastMachineState = newState THEN s
  ELSE IF ~s.configFile.ok \/ ~s.configFile.writable THEN s
  ELSE [s EXCEPT !.configFile = [@ EXCEPT !.machine_state = newState,
                                          !.machine_state_updated = t],
                 !.lastMachineState = newState,
                 !.lastStateUpdateTime = t,
                 !.fx.log = Append(@, "publish")]

\* shouldRecordReading(temperature, output): the result is left in s.rc
shouldRecordReading(s, temperature, out, t) ==
  LET r == Classify(s.temperatureHistory, temperature, out, s.target_temp, t,
                    s.lastOffStateRecording)
      recentHistory == Recent(s.temperatureHistory, t - STATE_DETECTION_WINDOW_MS)
      s1 == [s EXCEPT !.rc = r,
                      !.previousMachineState = s.lastMachineState,
                      !.fx.log = Append(@, "classify"),
                      !.fx.calls = Append(@,
                         [temperature |-> temperature,
                          out |-> out,
                          trend |-> Len(s.temperatureHistory) >= 10 /\ Len(recentHistory) >= 2,
                          oldestTemp |-> IF Len(recentHistory) > 0 THEN recentHistory[1].temp
                                         ELSE temperature,
                          state |-> r.state,
                          target |-> s.target_temp])]
  IN updateMachineState(s1, r.state, t)

\* flushBuffer() up to its await: nothing is sent from an empty buffer or
\* without a connection, otherwise insertMany(writeBuffer) is started
flushBuffer(s) ==
  IF Len(s.writeBuffer) = 0 \/ ~s.mongoConnected THEN s
  ELSE [s EXCEPT !.pendingInserts = Append(@, s.writeBuffer)]

\* insert(temperature, output)
insert(s, temperature, out, t) ==
  LET s1 == shouldRecordReading(s, temperature, out, t)
      s2 == IF s1.rc.state = "off" THEN [s1 EXCEPT !.lastOffStateRecording = t] ELSE s1
      s3 == [s2 EXCEPT !.writeBuffer =
                          Append(@, [temperature |-> temperature, output |-> out,
                                     timestamp |-> t,
                                     pid_mode |-> IF s2.inRecoveryPhase THEN "recovery"
                                                  ELSE "normal"]),
                       !.fx.log = Append(@, "enqueue")]
  IN IF ~s1.rc.shouldRecord THEN s1
     ELSE IF Len(s3.writeBuffer) >= BATCH_SIZE THEN flushBuffer(s3) ELSE s3

\* ----------------------------------------------------------- control loop
MaxTemp(h) == CHOOSE m \in {h[i].temp : i \in 1..Len(h)} :
                \A i \in 1..Len(h) : h[i].temp <= m

\* temperature > MAX_SAFE_TEMP
OvertempLax(temperature) == temperature > MAX_TEMP_READING

\* temperature > MAX_SAFE_TEMP
Overtemp(temperature) == temperature > MAX_SAFE_TEMP

RecoveryDetectedOver5(history, temperature, target, t) ==
  /\ Len(history) >= 10
  /\ LET recentHistory == Recent(history, t - RECOVERY_WINDOW_SECONDS * 1000)
     IN /\ Len(recentHistory) >= 2
        /\ MaxTemp(recentHistory) - temperature > RECOVERY_DROP_THRESHOLD
        /\ temperature < target
        /\ temperature < MaxTemp(recentHistory)

\* the recovery detection of the tick, before the exit rule
RecoveryDetected(history, temperature, target, t) ==
  /\ Len(history) >= 10
  /\ LET recentHistory == Recent(history, t - RECOVERY_WINDOW_SECONDS * 1000)
     IN /\ Len(recentHistory) >= 2
        /\ MaxTemp(recentHistory) - temperature >= RECOVERY_DROP_THRESHOLD
        /\ temperature < target
        /\ temperature < MaxTemp(recentHistory)

\* if (inRecoveryPhase && temperature >= target_temp - 5.0) recoveryPhaseDetected = false
RecoveryExit(inRecovery, temperature, target) == inRecovery /\ temperature >= target - 50

PushHistory(history, temperature, t) ==
  LET h == Append(history, [temp |-> temperature, timestamp |-> t])
  IN IF Len(h) > TEMP_HISTORY_SIZE THEN Tail(h) ELSE h

\* if (temperature >= target_temp) SSROutput = 0
SetpointOverrideStrict(temperature, target, out) == IF temperature > target THEN 0 ELSE out

\* if (temperature >= target_temp) SSROutput = 0
SetpointOverride(temperature, target, out) == IF temperature >= target THEN 0 ELSE out

\* Math.max(0, Math.min(MAX_OUTPUT, SSROutput))
ClampNone(out) == out

\* Math.max(0, Math.min(MAX_OUTPUT, SSROutput))
Clamp(out) == IF out < 0 THEN 0 ELSE IF out > MAX_OUTPUT THEN MAX_OUTPUT ELSE out

\* previousMachineState === 'off' && currentState === 'heating' && !pidResetOnHeatingStart
HeatingStart(prev, cur, alreadyReset) == prev = "off" /\ cur = "heating" /\ ~alreadyReset

\* the emergency branch of the tick
EmergencyShutdown(s) ==
  LET s1 == AnalogWrite(s, 0)
  IN [s1 EXCEPT !.consecutiveFailures = MAX_CONSECUTIVE_FAILURES,
                !.fx.log = Append(@, "latch")]

\* the tick after a valid reading below the emergency limit, up to the
\* classification; raw1 is what the engine returns to calculate()
TickToClassified(s, temperature, raw1, t) ==
  LET s1 == [s EXCEPT !.temperatureHistory = PushHistory(@, temperature, t),
                      !.fx.log = Append(@, "push")]
      detected == RecoveryDetected(s1.temperatureHistory, temperature, s1.target_temp, t)
      recovery == IF RecoveryExit(s1.inRecoveryPhase, temperature, s1.target_temp)
                  THEN FALSE ELSE detected
      s2 == switchPIDMode(s1, recovery)
      s3 == Calculate(s2, raw1)
  IN shouldRecordReading(s3, temperature, s3.SSROutput, t)

RearmAlways(cur) == TRUE

\* if (currentState === 'off') pidResetOnHeatingStart = false
Rearm(cur) == cur = "off"

\* does the tick rebuild the engine for a heating start
Resets(s4) == HeatingStart(s4.previousMachineState, s4.rc.state, s4.pidResetOnHeatingStart)

\* the rest of the tick; raw2 is what the rebuilt engine returns when the
\* tick resets it for a heating start
TickFromClassified(s4, temperature, raw2, t) ==
  LET currentState == s4.rc.state
      s5 == IF Resets(s4)
            THEN Calculate([Log(InitializePID(s4), "heat_reset")
                              EXCEPT !.pidResetOnHeatingStart = TRUE], raw2)
            ELSE s4
      outputPercent == s5.SSROutput
      s6 == IF Rearm(currentState) THEN [s5 EXCEPT !.pidResetOnHeatingStart = FALSE] ELSE s5
      s7 == [s6 EXCEPT !.SSROutput = Clamp(SetpointOverride(temperature, s6.target_temp, @)),
                       !.fx.state = currentState,
                       !.fx.target = s6.target_temp]
      s8 == AnalogWrite(s7, s7.SSROutput)
  IN insert(s8, temperature, outputPercent, t)

\* success in the 'close' handler: consecutiveFailures = 0
ResetFailures(s) == [s EXCEPT !.consecutiveFailures = 0]

\* consecutiveFailures >= MAX_CONSECUTIVE_FAILURES
ShutdownDueAtOnce(failures) == failures >= 1

\* consecutiveFailures >= MAX_CONSECUTIVE_FAILURES
ShutdownDue(failures) == failures >= MAX_CONSECUTIVE_FAILURES

\* the 'close' handler for a non-zero exit code (null after a kill)
CloseNonZero(s) ==
  LET s1 == [s EXCEPT !.consecutiveFailures = @ + 1]
  IN IF ShutdownDue(s1.consecutiveFailures) THEN AnalogWrite(s1, 0) ELSE s1

\* the 'close' handler for NaN or an out-of-range value, and the 'error' handler
CountFailure(s) == [s EXCEPT !.consecutiveFailures = @ + 1]

\* --------------------------------------------------------------- readings
\* values the sensor script can print (tenths of a degree)
ValidTemps == {500, 1000, 1650}
OutOfRangeTemps == {2500}

\* ------------------------------------------------------------------- Init
InitLoaded(cfg) == LoadValues(cfg, NoLKG)

\* steamTimer === null; set: the variable holds a Timeout object, live: the
\* timeout has neither fired nor been cleared
NoTimer == [set |-> FALSE, live |-> FALSE, deadline |-> 0, idleStart |-> 0, idleTimeout |-> 0]

Init ==
  /\ now = StartTime
  /\ configFile \in InitConfigs
  /\ boiler = FALSE
  /\ gpioAvailable = FALSE
  /\ pwm = -1
  /\ SSROutput = 0
  /\ target_temp = InitLoaded(configFile).target_temp
  /\ proportional = InitLoaded(configFile).proportional
  /\ integral = InitLoaded(configFile).integral
  /\ derivative = InitLoaded(configFile).derivative
  /\ recovery_proportional = InitLoaded(configFile).recovery_proportional
  /\ recovery_integral = InitLoaded(configFile).recovery_integral
  /\ recovery_derivative = InitLoaded(configFile).recovery_derivative
  /\ lastKnownGoodConfig = IF configFile.ok THEN InitLoaded(configFile) ELSE NoLKG
  /\ pidController = NewEngine(InitLoaded(configFile).target_temp,
                               InitLoaded(configFile).proportional,
                               InitLoaded(configFile).integral,
                               InitLoaded(configFile).derivative)
  /\ inRecoveryPhase = FALSE
  /\ temperatureHistory = <<>>
  /\ consecutiveFailures = 0
  /\ controlLoopRunning = FALSE
  /\ readsInFlight = 0
  /\ readStart = 0
  /\ lingering = 0
  /\ writeBuffer = <<>>
  /\ mongoConnected = FALSE
  /\ pendingInserts = <<>>
  /\ lastOffStateRecording = 0
  /\ lastMachineState = "null"
  /\ previousMachineState = "null"
  /\ pidResetOnHeatingStart = FALSE
  /\ lastStateUpdateTime = 0
  /\ reloadDue = StartTime + RELOAD_PERIOD_MS
  /\ currentMode = "espresso"
  /\ steamTimer = NoTimer
  /\ events = <<>>
  /\ resetArmed = TRUE
  /\ reloadedFile = [some |-> FALSE, file |-> configFile]
  /\ openWrite = [some |-> FALSE, doc |-> configFile]
  /\ stored = <<>>
  /\ fx = [Fx("init", -1) EXCEPT !.log = <<"init">>]
  /\ tickState = "none"
  /\ failedSinceValid = 0
  /\ exited = FALSE
  /\ reads = 0
  /\ configWrites = 0
  /\ cancelledDeadline = 0
  /\ modeOps = 0

\* ---------------------------------------------------------------- actions
\* of pid-process.js
Fresh(kind, temp) == [PidState EXCEPT !.fx = Fx(kind, temp)]

envUnchanged == UNCHANGED <<webVars, configWrites, cancelledDeadline, reloadedFile, openWrite, stored, boiler, gpioAvailable,
                            mongoConnected, reloadDue>>

\* if (controlLoopRunning) return
SkipTickNever(running) == FALSE

\* if (controlLoopRunning) return
SkipTick(running) == running

\* the pending read's timeout has fired
TimeoutNever == FALSE

TimeoutDue == readsInFlight > 0 /\ now - readStart >= TEMP_READ_TIMEOUT

\* the 1000 ms interval: skip while a tick is running, else start a tick
TimerFire(maxSteps, maxReads) ==
  /\ ~exited
  /\ now < StartTime + maxSteps * TICK_PERIOD_MS
  /\ ~TimeoutDue
  /\ now < reloadDue
  /\ now' = now + TICK_PERIOD_MS
  /\ IF SkipTick(controlLoopRunning)
     THEN /\ fx' = Fx("skip", -1)
          /\ UNCHANGED <<configFile, pidVars, webVars, configWrites, cancelledDeadline, reloadedFile, openWrite, stored>>
     ELSE /\ reads < maxReads
          /\ reads' = reads + 1
          /\ controlLoopRunning' = TRUE
          /\ readsInFlight' = readsInFlight + 1
          /\ readStart' = now'
          /\ fx' = [Fx("spawn", -1) EXCEPT !.log = <<"spawn">>]
          /\ UNCHANGED <<configFile, boiler, gpioAvailable, pwm, SSROutput, target_temp,
                         proportional, integral, derivative, recovery_proportional,
                         recovery_integral, recovery_derivative, lastKnownGoodConfig,
                         pidController, inRecoveryPhase, temperatureHistory,
                         consecutiveFailures, lingering, writeBuffer, mongoConnected,
                         pendingInserts, lastOffStateRecording, lastMachineState,
                         previousMachineState, pidResetOnHeatingStart, lastStateUpdateTime,
                         reloadDue, tickState, failedSinceValid, resetArmed, exited, webVars,
                         configWrites,
                         cancelledDeadline, reloadedFile, openWrite, stored>>

\* the end of a tick: the finally block and the bookkeeping of the read
EndTick(s, linger, failed) ==
  /\ ~exited
  /\ Commit([s EXCEPT !.fx.prevState = tickState])
  /\ controlLoopRunning' = FALSE
  /\ readsInFlight' = readsInFlight - 1
  /\ lingering' = lingering + linger
  /\ tickState' = s.fx.state
  /\ failedSinceValid' = IF failed THEN failedSinceValid + 1 ELSE 0
  /\ resetArmed' = IF \E i \in DOMAIN s.fx.log : s.fx.log[i] = "heat_reset" THEN FALSE
                   ELSE IF s.fx.state = "off" THEN TRUE
                   ELSE resetArmed
  /\ UNCHANGED <<now, readStart, reads, exited>>
  /\ envUnchanged

\* 'close' with code 0 and a value inside [MIN_TEMP, MAX_TEMP_READING]:
\* the emergency branch, or the nominal tick
SensorValid(temps, raws) ==
  /\ readsInFlight > 0
  /\ ~TimeoutDue
  /\ \E temperature \in temps :
       /\ temperature >= MIN_TEMP /\ temperature <= MAX_TEMP_READING
       /\ LET s0 == ResetFailures(Fresh("valid", temperature))
          IN IF Overtemp(temperature)
             THEN EndTick(EmergencyShutdown(s0), 0, FALSE)
             ELSE \E raw1 \in raws :
                    LET s4 == TickToClassified(s0, temperature, raw1, now)
                    IN \E raw2 \in IF Resets(s4) THEN raws ELSE {raw1} :
                         EndTick(TickFromClassified(s4, temperature, raw2, now), 0, FALSE)

\* 'close' with a non-zero exit code
SensorExitFail ==
  /\ readsInFlight > 0
  /\ ~TimeoutDue
  /\ EndTick(CloseNonZero(Fresh("exit_fail", -1)), 0, TRUE)

\* 'close' with code 0 and output that parseFloat turns into NaN
SensorParseFail ==
  /\ readsInFlight > 0
  /\ ~TimeoutDue
  /\ EndTick(CountFailure(Fresh("parse_fail", -1)), 0, TRUE)

\* 'close' with code 0 and a value outside [MIN_TEMP, MAX_TEMP_READING]
SensorRangeFail ==
  /\ readsInFlight > 0
  /\ ~TimeoutDue
  /\ \E temperature \in OutOfRangeTemps :
       /\ temperature < MIN_TEMP \/ temperature > MAX_TEMP_READING
       /\ EndTick(CountFailure(Fresh("range_fail", temperature)), 0, TRUE)

\* 'error': the child could not be spawned. The handler counts the failure
\* and rejects; 'close' always follows 'error' for a failed spawn, with a
\* negative code, in the same turn of the event loop
SensorSpawnError ==
  /\ readsInFlight > 0
  /\ now = readStart
  /\ EndTick(CloseNonZero(CountFailure(Fresh("spawn_error", -1))), 0, TRUE)

\* the 5 s timeout: kill the child and reject; its 'close' follows
SensorTimeout ==
  /\ TimeoutDue
  /\ EndTick(Fresh("timeout", -1), 1, TRUE)

\* 'close' of a child that was killed or never started: the code is not 0
\* and the promise is already settled
LateClose ==
  /\ ~exited
  /\ lingering > 0
  /\ lingering' = lingering - 1
  /\ Commit(CloseNonZero(Fresh("late_close", -1)))
  /\ UNCHANGED <<now, controlLoopRunning, readsInFlight, readStart, tickState,
                 failedSinceValid, resetArmed, exited, reads>>
  /\ envUnchanged

\* pigpio 'connected': the pin object is created (between two ticks: while a
\* read is awaited nothing writes the pin)
GpioConnected ==
  /\ ~exited
  /\ ~boiler
  /\ ~controlLoopRunning
  /\ boiler' = TRUE
  /\ gpioAvailable' = TRUE
  /\ fx' = Fx("gpio", -1)
  /\ UNCHANGED <<now, configFile, pwm, SSROutput, target_temp, proportional, integral,
                 derivative, recovery_proportional, recovery_integral, recovery_derivative,
                 lastKnownGoodConfig, pidController, inRecoveryPhase, temperatureHistory,
                 consecutiveFailures, controlLoopRunning, readsInFlight, readStart,
                 lingering, writeBuffer, mongoConnected, pendingInserts,
                 lastOffStateRecording, lastMachineState, previousMachineState,
                 pidResetOnHeatingStart, lastStateUpdateTime, reloadDue, tickState,
                 failedSinceValid, resetArmed, exited, reads, webVars, configWrites, cancelledDeadline, reloadedFile, openWrite, stored>>

\* pigpio 'error'
GpioError ==
  /\ ~exited
  /\ gpioAvailable
  /\ gpioAvailable' = FALSE
  /\ fx' = Fx("gpio", -1)
  /\ UNCHANGED <<now, configFile, boiler, pwm, SSROutput, target_temp, proportional,
                 integral, derivative, recovery_proportional, recovery_integral,
                 recovery_derivative, lastKnownGoodConfig, pidController, inRecoveryPhase,
                 temperatureHistory, consecutiveFailures, controlLoopRunning, readsInFlight,
                 readStart, lingering, writeBuffer, mongoConnected, pendingInserts,
                 lastOffStateRecording, lastMachineState, previousMachineState,
                 pidResetOnHeatingStart, lastStateUpdateTime, reloadDue, tickState,
                 failedSinceValid, resetArmed, exited, reads, webVars, configWrites, cancelledDeadline, reloadedFile, openWrite, stored>>

\* what another writer makes of the document
EditsOf(cfg) ==
  { [cfg EXCEPT !.ok = TRUE, !.target_temperature = Num(600)],
    [cfg EXCEPT !.ok = TRUE, !.target_temperature = Num(1000)],
    [cfg EXCEPT !.ok = FALSE],
    [cfg EXCEPT !.writable = FALSE] }

\* config.json is replaced by another process. Handlers read the file in one
\* step, so a replacement while a read of the sensor is awaited is the same
\* as one before the tick started; one after the control process has ended
\* is read by nobody
ConfigWrite(maxWrites) ==
  /\ ~exited
  /\ configWrites < maxWrites
  /\ ~controlLoopRunning
  /\ configWrites' = configWrites + 1
  /\ \E c \in EditsOf(configFile) : c # configFile /\ configFile' = c
  /\ fx' = Fx("config_write", -1)
  /\ UNCHANGED <<now, pidVars, webVars, cancelledDeadline, reloadedFile, openWrite, stored>>

\* what a writer can leave in the target_temperature field: nothing, a
\* string, a number above 200
DamagesOf(cfg) ==
  { [cfg EXCEPT !.target_temperature = Missing],
    [cfg EXCEPT !.target_temperature = Str],
    [cfg EXCEPT !.target_temperature = Num(2500)] }

\* config.json is replaced by a document whose target_temperature is not a
\* number in range
ConfigDamage(maxWrites) ==
  /\ ~exited
  /\ configWrites < maxWrites
  /\ ~controlLoopRunning
  /\ configWrites' = configWrites + 1
  /\ \E c \in DamagesOf(configFile) : configFile' = c
  /\ fx' = Fx("config_damage", -1)
  /\ UNCHANGED <<now, pidVars, webVars, cancelledDeadline, reloadedFile, openWrite, stored>>

\* the comparison of the 10 s reload interval
ConfigChanged(cfg, s) ==
  \/ NumberOr(cfg.target_temperature, s.target_temp) # s.target_temp
  \/ NumberOr(cfg.proportional, s.proportional) # s.proportional
  \/ NumberOr(cfg.integral, s.integral) # s.integral
  \/ NumberOr(cfg.derivative, s.derivative) # s.derivative
  \/ NumberOr(cfg.recovery_proportional, s.recovery_proportional) # s.recovery_proportional
  \/ NumberOr(cfg.recovery_integral, s.recovery_integral) # s.recovery_integral
  \/ NumberOr(cfg.recovery_derivative, s.recovery_derivative) # s.recovery_derivative

\* the handler of the 10 s reload interval
Reload(s) ==
  IF ~s.configFile.ok THEN s
  ELSE IF ConfigChanged(s.configFile, s) THEN InitializePID(s)
  ELSE s

ConfigReload ==
  /\ ~exited
  /\ now >= reloadDue
  /\ reloadDue' = reloadDue + RELOAD_PERIOD_MS
  /\ Commit(Reload(Fresh("reload", -1)))
  /\ reloadedFile' = [some |-> TRUE, file |-> configFile]
  /\ UNCHANGED <<now, controlLoopRunning, readsInFlight, readStart, lingering, tickState,
                 failedSinceValid, resetArmed, exited, reads, cancelledDeadline, webVars, configWrites, boiler,
                 gpioAvailable, mongoConnected, openWrite, stored>>

\* exitHandler({cleanup: true}) on the 'exit' event: the pin is written, the
\* flush is started and the process ends before its promise settles
exitHandler(s) == Log(AnalogWrite(s, 0), "flush")

\* the process ends through process.exit() or by running out of work
ProcessExit ==
  /\ ~exited
  /\ exited' = TRUE
  /\ Commit(exitHandler(Fresh("exit", -1)))
  /\ UNCHANGED <<now, controlLoopRunning, readsInFlight, readStart, lingering, tickState,
                 failedSinceValid, resetArmed, reads, reloadDue, cancelledDeadline, reloadedFile, openWrite, stored, webVars, configWrites,
                 boiler, gpioAvailable, mongoConnected>>

\* ------------------------------------------------- actions of web-server.js
Modes == {"espresso", "steam", "off"}

\* the :duration segment of /api/mode/steam in seconds; 0 stands for a
\* request without the segment
Durations == {0, 9, 10, 600, 601}

\* the temperature setMode saves as the target for a mode
ModeTarget(cfg, mode) ==
  IF mode = "off" THEN Num(0)
  ELSE IF mode = "steam" THEN JsOr(cfg.steam_temperature, 1400)
  ELSE JsOr(cfg.espresso_temperature, 1000)

\* clearTimeout(steamTimer); steamTimer = null
ClearTimerKeeps(timer) == timer

\* clearTimeout(steamTimer); steamTimer = null
ClearTimer(timer) == NoTimer

\* the clock of the event loop that setTimeout stamps a timer's _idleStart
\* with: milliseconds since the loop started, where Date.now() is t
LoopNow(t) == t - StartTime

\* the state of web-server.js that setMode reads and writes
WebState ==
  [configFile |-> configFile, currentMode |-> currentMode, steamTimer |-> steamTimer,
   cancelledDeadline |-> cancelledDeadline, threw |-> FALSE]

\* setMode(mode, duration) at time t: the read or the write of config.json
\* may throw, and then nothing else of the function has run
setModeEager(w, mode, timeoutMs, t) ==
  IF ~w.configFile.ok \/ ~w.configFile.writable THEN [w EXCEPT !.threw = TRUE, !.currentMode = mode]
  ELSE [w EXCEPT !.configFile.target_temperature = ModeTarget(w.configFile, mode),
                 !.currentMode = mode]

setMode(w, mode, timeoutMs, t) ==
  IF ~w.configFile.ok \/ ~w.configFile.writable THEN [w EXCEPT !.threw = TRUE]
  ELSE [w EXCEPT !.configFile.target_temperature = ModeTarget(w.configFile, mode),
                 !.currentMode = mode,
                 !.steamTimer = IF mode = "steam"
                                THEN [set |-> TRUE, live |-> TRUE, deadline |-> t + timeoutMs,
                                      idleStart |-> LoopNow(t), idleTimeout |-> timeoutMs]
                                ELSE IF w.steamTimer.set THEN ClearTimer(w.steamTimer)
                                ELSE w.steamTimer,
                 !.cancelledDeadline = IF w.steamTimer.live THEN w.steamTimer.deadline
                                       ELSE @]

\* the end of a request handler; the record of the run keeps what was asked
\* for: the mode or parameter in state, the number in temp
WebCommit(w, kind, what, arg) ==
  /\ configFile' = w.configFile
  /\ currentMode' = w.currentMode
  /\ steamTimer' = w.steamTimer
  /\ cancelledDeadline' = w.cancelledDeadline
  /\ UNCHANGED <<reloadedFile, openWrite, stored>>
  /\ fx' = [Fx(kind, arg) EXCEPT !.log = IF w.threw THEN <<"throw">> ELSE <<>>,
                                 !.state = what]

\* duration !== null && (isNaN(duration) || duration < 10 || duration > 600)
InvalidDurationFrom11(duration) == duration # 0 /\ (duration <= 10 \/ duration > 600)

\* duration !== null && (isNaN(duration) || duration < 10 || duration > 600)
InvalidDuration(duration) == duration # 0 /\ (duration < 10 \/ duration > 600)

\* GET /api/mode/espresso, /api/mode/steam/:duration? and /api/mode/off
SetModeRequest(maxOps) ==
  /\ modeOps < maxOps
  /\ modeOps' = modeOps + 1
  /\ \E mode \in Modes, duration \in Durations :
       /\ mode # "steam" => duration = 0
       /\ IF mode = "steam" /\ InvalidDuration(duration)
          THEN WebCommit(WebState, "bad_request", mode, duration)
          ELSE WebCommit(setMode(WebState, mode,
                                 IF duration # 0 THEN duration * 1000 ELSE STEAM_TIMEOUT_MS,
                                 now), "set_mode", mode, duration)
  /\ UNCHANGED <<now, pidVars, events, configWrites>>

\* the callback of steamTimer: setMode('espresso'), then io.emit. When
\* setMode throws, the 'uncaughtException' handler logs and the server goes on
SteamTimeout ==
  /\ steamTimer.live
  /\ now >= steamTimer.deadline
  /\ LET w == setMode([WebState EXCEPT !.steamTimer.live = FALSE], "espresso",
                      STEAM_TIMEOUT_MS, now)
     IN /\ WebCommit(w, "steam_timeout", "espresso", -1)
        /\ events' = IF w.threw THEN events
                     ELSE Append(events, [name |-> "mode_change", mode |-> "espresso",
                                          reason |-> "steam_timeout"])
  /\ UNCHANGED <<now, pidVars, modeOps, configWrites>>

\* :temp of GET /api/temp/set/:temp, in tenths of a degree
Targets == {-1, 0, 900, 2000, 2001}

InvalidTargetFrom200(temp) == temp < 0 \/ temp >= 2000

\* isNaN(temp) || temp < 0 || temp > 200
InvalidTarget(temp) == temp < 0 \/ temp > 2000

\* the body of GET /api/temp/set/:temp after validation: the target, and the
\* preference of the current mode, are written to config.json
setTargetBoth(w, temp) ==
  IF ~w.configFile.ok \/ ~w.configFile.writable
  THEN [w EXCEPT !.threw = TRUE]
  ELSE [w EXCEPT !.configFile.target_temperature = Num(temp),
                 !.configFile.espresso_temperature = Num(temp),
                 !.configFile.steam_temperature =
                     IF w.currentMode = "steam" THEN Num(temp) ELSE @]

setTarget(w, temp) ==
  IF ~w.configFile.ok \/ ~w.configFile.writable
  THEN [w EXCEPT !.threw = TRUE]
  ELSE [w EXCEPT !.configFile.target_temperature = Num(temp),
                 !.configFile.espresso_temperature =
                     IF w.currentMode = "espresso" THEN Num(temp) ELSE @,
                 !.configFile.steam_temperature =
                     IF w.currentMode = "steam" THEN Num(temp) ELSE @]

\* GET /api/temp/set/:temp
SetTargetRequest(maxOps) ==
  /\ modeOps < maxOps
  /\ modeOps' = modeOps + 1
  /\ \E temp \in Targets :
       IF InvalidTarget(temp)
       THEN WebCommit(WebState, "bad_target", "target", temp)
       ELSE WebCommit(setTarget(WebState, temp), "set_target", "target", temp)
  /\ UNCHANGED <<now, pidVars, events, configWrites>>

\* :p-:i-:d of GET /api/pid/set/:p-:i-:d, in hundredths
GainTriples == {<<-1, 10, 500>>, <<1000, 500, 10000>>, <<5000, 10, 500>>}

\* p < 0 || i < 0 || d < 0
InvalidGains(g) == g[1] < 0 \/ g[2] < 0 \/ g[3] < 0

\* the body of GET /api/pid/set/:p-:i-:d after validation
setGains(w, g) ==
  IF ~w.configFile.ok \/ ~w.configFile.writable
  THEN [w EXCEPT !.threw = TRUE]
  ELSE [w EXCEPT !.configFile.proportional = Num(g[1]),
                 !.configFile.integral = Num(g[2]),
                 !.configFile.derivative = Num(g[3])]

\* GET /api/pid/set/:p-:i-:d
SetGainsRequest(maxOps) ==
  /\ modeOps < maxOps
  /\ modeOps' = modeOps + 1
  /\ \E g \in GainTriples :
       IF InvalidGains(g)
       THEN WebCommit(WebState, "bad_gains", "gains", g[1])
       ELSE WebCommit(setGains(WebState, g), "set_gains", "gains", g[1])
  /\ UNCHANGED <<now, pidVars, events, configWrites>>

validParams ==
  {"proportional", "integral", "derivative",
   "recovery_proportional", "recovery_integral", "recovery_derivative"}

\* parameter.includes(word), for the parameters of validParams
Includes(parameter, word) ==
  \/ parameter = word
  \/ word = "proportional" /\ parameter = "recovery_proportional"
  \/ word = "integral" /\ parameter = "recovery_integral"
  \/ word = "derivative" /\ parameter = "recovery_derivative"

\* parameter and value of the body of POST /api/pid/update
UpdateInputs ==
  {<<"proportional", 1000>>, <<"proportional", 1001>>,
   <<"recovery_integral", 500>>, <<"recovery_integral", 501>>,
   <<"derivative", 10000>>, <<"derivative", 10001>>,
   <<"integral", -1>>, <<"target_temperature", 900>>}

\* the checks of POST /api/pid/update before the file is read
InvalidUpdate(parameter, value) ==
  \/ parameter \notin validParams
  \/ value < 0
  \/ Includes(parameter, "proportional") /\ value > 1000
  \/ Includes(parameter, "integral") /\ value > 500
  \/ Includes(parameter, "derivative") /\ value > 10000

\* config[parameter] = numValue
updateGain(w, parameter, value) ==
  IF ~w.configFile.ok \/ ~w.configFile.writable
  THEN [w EXCEPT !.threw = TRUE]
  ELSE [w EXCEPT !.configFile[parameter] = Num(value)]

\* POST /api/pid/update and GET /api/pid/update
UpdateGainRequest(maxOps) ==
  /\ modeOps < maxOps
  /\ modeOps' = modeOps + 1
  /\ \E u \in UpdateInputs :
       IF InvalidUpdate(u[1], u[2])
       THEN WebCommit(WebState, "bad_gains", u[1], u[2])
       ELSE WebCommit(updateGain(WebState, u[1], u[2]), "update_gain", u[1], u[2])
  /\ UNCHANGED <<now, pidVars, events, configWrites>>

\* Math.ceil(ms / 1000)
CeilSeconds(ms) == -((-ms) \div 1000)

\* null in a response
Null == [t |-> "null", v |-> 0]

\* the response of GET /api/mode: mode and steam_time_remaining
GetModeReply ==
  [mode |-> IF steamTimer.set THEN "steam" ELSE currentMode,
   steam_time_remaining |->
     IF steamTimer.set
     THEN Num(CeilSeconds(steamTimer.idleStart + steamTimer.idleTimeout - now))
     ELSE Null]

\* GET /api/mode; the record of the run keeps the handler that ran before it
GetMode(maxOps) ==
  /\ modeOps < maxOps
  /\ modeOps' = modeOps + 1
  /\ fx' = IF ~configFile.ok
           THEN [Fx("get_mode", -1) EXCEPT !.log = <<"throw">>]
           ELSE [Fx("get_mode", -1) EXCEPT
                   !.reply = GetModeReply,
                   !.after = IF fx.kind = "set_mode" /\ fx.log = <<>> THEN fx.state
                             ELSE "other"]
  /\ UNCHANGED <<now, configFile, pidVars, currentMode, steamTimer, events, configWrites,
                 cancelledDeadline, reloadedFile, openWrite, stored>>

\* time passes in the web server, in steps of 10 s or up to the deadline of
\* the live timeout, which fires at its deadline
ElapseStep == 10 * 1000

Elapse(horizonSeconds) ==
  /\ now < StartTime + horizonSeconds * 1000
  /\ \E d \in {ElapseStep} \cup {steamTimer.deadline - now} :
       /\ d > 0
       /\ steamTimer.live => now + d <= steamTimer.deadline
       /\ now' = now + d
  /\ fx' = Fx("elapse", -1)
  /\ UNCHANGED <<configFile, pidVars, webVars, configWrites, cancelledDeadline, reloadedFile, openWrite, stored>>

\* --------------------------------------------------------- specifications
\* the control process with every kind of reading
Next ==
  \/ TimerFire(MaxNowSteps, MaxReads)
  \/ SensorValid(ValidTemps, PIDOutputs)
  \/ SensorExitFail
  \/ SensorParseFail
  \/ SensorRangeFail
  \/ SensorSpawnError
  \/ SensorTimeout
  \/ LateClose
  \/ GpioConnected
  \/ ConfigWrite(MaxConfigWrites)
  \/ ProcessExit

Spec == Init /\ [][Next]_vars

\* the control process through a long run of failed reads
FailTemps == {500}
FailOutputs == {300}

FailNext ==
  \/ TimerFire(FailReads + 4, FailReads)
  \/ SensorValid(FailTemps, FailOutputs)
  \/ SensorExitFail
  \/ SensorParseFail
  \/ SensorRangeFail
  \/ SensorSpawnError
  \/ SensorTimeout
  \/ LateClose
  \/ GpioConnected

FailSpec == Init /\ [][FailNext]_vars

\* the control process around the heating threshold of the classifier
HeatTemps == {500}
HeatOutputs == {40, 300}

HeatNext ==
  \/ TimerFire(HeatReads, HeatReads)
  \/ SensorValid(HeatTemps, HeatOutputs)
  \/ GpioConnected
  \/ ProcessExit

HeatSpec == Init /\ [][HeatNext]_vars

\* ten readings of a boiler that cools from 90.5 to 90.0 while the engine
\* asks for full power: the trend branch of the classifier is reached
ClassTemps == {900, 905}
ClassOutputs == {300}

ClassNext ==
  \/ TimerFire(ClassReads, ClassReads)
  \/ SensorValid(ClassTemps, ClassOutputs)

ClassSpec == Init /\ [][ClassNext]_vars

\* a boiler held at the target with the telemetry store unreachable: every
\* tick is classified ready and makes a record
BufferTemps == {1000}
BufferOutputs == {0}

\* the 1000 ms interval when the sensor answered within the second: no tick
\* is running when it fires
TimerFireIdle(maxReads) ==
  /\ ~controlLoopRunning
  /\ TimerFire(maxReads, maxReads)

BufferNext ==
  \/ TimerFireIdle(BufferReads)
  \/ SensorValid(BufferTemps, BufferOutputs)
  \/ ConfigReload

BufferSpec == Init /\ [][BufferNext]_vars

\* a boiler at 90 C under a target of 100 C that loses 5.0 or 4.9 degrees
RecoveryTemps == {850, 851, 900}
RecoveryOutputs == {255}

\* the first ten readings, before the first reload is due
RecoveryNext ==
  \/ TimerFireIdle(RecoveryReads)
  \/ SensorValid(RecoveryTemps, RecoveryOutputs)

RecoverySpec == Init /\ [][RecoveryNext]_vars

\* the same boiler after the drop: readings of 85 and 90 C, more than 5 below
\* the target
ExitTemps == {850, 900}

ExitNext ==
  \/ TimerFireIdle(ExitReads)
  \/ SensorValid(ExitTemps, RecoveryOutputs)
  \/ ConfigReload

ExitSpec == Init /\ [][ExitNext]_vars

\* the reload interval over 20 s of a steady boiler, with one call of
\* GET /api/pid/set
ReloadTemps == {900}

ReloadNext ==
  \/ TimerFireIdle(ReloadReads)
  \/ SensorValid(ReloadTemps, RecoveryOutputs)
  \/ ConfigReload
  \/ SetGainsRequest(MaxReloadOps)

ReloadSpec == Init /\ [][ReloadNext]_vars

\* the reload interval with the mode commands and a damaged file
LoadNext ==
  \/ SetModeRequest(MaxLoadOps)
  \/ SteamTimeout
  \/ ConfigDamage(MaxConfigWrites)
  \/ ConfigReload
  \/ Elapse(MaxLoadSeconds)

LoadSpec == Init /\ [][LoadNext]_vars

\* fs.writeFileSync opens config.json with flag 'w', which empties the file, and writes
\* the document afterwards; the control process is another process and runs in between
SetTargetOpen(maxOps) ==
  /\ ~openWrite.some
  /\ modeOps < maxOps
  /\ configFile.ok /\ configFile.writable
  /\ modeOps' = modeOps + 1
  /\ \E temp \in Targets :
       /\ ~InvalidTarget(temp)
       /\ openWrite' = [some |-> TRUE, doc |-> setTarget(WebState, temp).configFile]
       /\ fx' = [Fx("open", temp) EXCEPT !.state = "target"]
  /\ configFile' = [configFile EXCEPT !.ok = FALSE]
  /\ UNCHANGED <<now, pidVars, currentMode, steamTimer, events, configWrites, cancelledDeadline,
                 reloadedFile, stored>>

WriteClose ==
  /\ openWrite.some
  /\ configFile' = openWrite.doc
  /\ openWrite' = [some |-> FALSE, doc |-> openWrite.doc]
  /\ fx' = [Fx("set_target", -1) EXCEPT !.state = "target"]
  /\ UNCHANGED <<now, pidVars, webVars, configWrites, cancelledDeadline, reloadedFile, stored>>

TimerFireClosed(maxReads) ==
  /\ ~openWrite.some
  /\ TimerFireIdle(maxReads)

\* the web server stores a target while the control process ticks and reloads
TornNext ==
  \/ TimerFireClosed(ReloadReads)
  \/ SensorValid(ReloadTemps, RecoveryOutputs)
  \/ ConfigReload
  \/ SetTargetOpen(MaxReloadOps)
  \/ WriteClose

TornSpec == Init /\ [][TornNext]_vars

\* SIGTERM has no handler among the process.on registrations: the default action
\* ends the process and no 'exit' event is emitted
Sigterm ==
  /\ ~exited
  /\ exited' = TRUE
  /\ Commit(Fresh("sigterm", -1))
  /\ UNCHANGED <<now, controlLoopRunning, readsInFlight, readStart, lingering, tickState,
                 failedSinceValid, resetArmed, reads, reloadDue, cancelledDeadline, reloadedFile,
                 openWrite, stored, webVars, configWrites, boiler, gpioAvailable, mongoConnected>>

\* heating of a cold boiler ended by process.exit() or by SIGTERM
ShutdownNext ==
  \/ TimerFire(HeatReads, HeatReads)
  \/ SensorValid(HeatTemps, HeatOutputs)
  \/ GpioConnected
  \/ ProcessExit
  \/ Sigterm

ShutdownSpec == Init /\ [][ShutdownNext]_vars

\* the writers of config.json: the command handlers and the classifier of the ticks
FrameNext ==
  \/ SetModeRequest(MaxFrameOps)
  \/ SetTargetRequest(MaxFrameOps)
  \/ SetGainsRequest(MaxFrameOps)
  \/ UpdateGainRequest(MaxFrameOps)
  \/ TimerFireIdle(HeatReads)
  \/ SensorValid(HeatTemps, HeatOutputs)

FrameSpec == Init /\ [][FrameNext]_vars

\* client.connect() of connectMongoDB resolves
MongoConnected ==
  /\ ~exited
  /\ ~mongoConnected
  /\ mongoConnected' = TRUE
  /\ Commit(Fresh("mongo_connected", -1))
  /\ UNCHANGED <<now, controlLoopRunning, readsInFlight, readStart, lingering, tickState,
                 failedSinceValid, resetArmed, exited, reads, reloadDue, cancelledDeadline,
                 reloadedFile, openWrite, stored, webVars, configWrites, boiler, gpioAvailable>>

IsStored(doc) == \E i \in DOMAIN stored : stored[i] = doc

\* the oldest insertMany in flight resolves and flushBuffer goes on after its
\* await: writeBuffer = []
InsertResolved ==
  /\ ~exited
  /\ pendingInserts # <<>>
  /\ stored' = stored \o Head(pendingInserts)
  /\ Commit([Fresh("insert_resolved", -1) EXCEPT !.pendingInserts = Tail(@),
                                                !.writeBuffer = <<>>])
  /\ UNCHANGED <<now, controlLoopRunning, readsInFlight, readStart, lingering, tickState,
                 failedSinceValid, resetArmed, exited, reads, reloadDue, cancelledDeadline,
                 reloadedFile, openWrite, webVars, configWrites, boiler, gpioAvailable,
                 mongoConnected>>

\* the oldest insertMany in flight holds a document that is in the collection
\* already, under the _id the driver gave it on the first attempt, and rejects
\* with a duplicate key error: the catch of flushBuffer logs it and the buffer stays
InsertRejected ==
  /\ ~exited
  /\ pendingInserts # <<>>
  /\ \E i \in DOMAIN Head(pendingInserts) : IsStored(Head(pendingInserts)[i])
  /\ Commit([Fresh("insert_rejected", -1) EXCEPT !.pendingInserts = Tail(@)])
  /\ UNCHANGED <<now, controlLoopRunning, readsInFlight, readStart, lingering, tickState,
                 failedSinceValid, resetArmed, exited, reads, reloadDue, cancelledDeadline,
                 reloadedFile, openWrite, stored, webVars, configWrites, boiler, gpioAvailable,
                 mongoConnected>>

\* a boiler held at the target with the store connected
StoreNext ==
  \/ TimerFireIdle(StoreReads)
  \/ SensorValid(BufferTemps, BufferOutputs)
  \/ ConfigReload
  \/ MongoConnected
  \/ InsertResolved
  \/ InsertRejected

StoreSpec == Init /\ [][StoreNext]_vars

\* the set_target handler has parsed config.json and assigned its keys on the
\* parsed object; the control process runs before the handler's writeFileSync
SetTargetRead(maxOps) ==
  /\ ~openWrite.some
  /\ modeOps < maxOps
  /\ configFile.ok /\ configFile.writable
  /\ modeOps' = modeOps + 1
  /\ \E temp \in Targets :
       /\ ~InvalidTarget(temp)
       /\ openWrite' = [some |-> TRUE, doc |-> setTarget(WebState, temp).configFile]
       /\ fx' = [Fx("read", temp) EXCEPT !.state = "target"]
  /\ UNCHANGED <<now, configFile, pidVars, currentMode, steamTimer, events, configWrites,
                 cancelledDeadline, reloadedFile, stored>>

\* a command handler and the classifier of the ticks write config.json
UpdateNext ==
  \/ TimerFireClosed(HeatReads)
  \/ SensorValid(HeatTemps, HeatOutputs)
  \/ SetTargetRead(MaxReloadOps)
  \/ WriteClose

UpdateSpec == Init /\ [][UpdateNext]_vars

\* a sensor that answers, fails or hangs; the timers of the process keep firing:
\* the 1 s interval, the 5 s timeout of a read and the 10 s reload interval
HangNext ==
  \/ TimerFire(HangSteps, HangReads)
  \/ SensorValid(HeatTemps, HeatOutputs)
  \/ SensorExitFail
  \/ SensorTimeout
  \/ LateClose
  \/ ConfigReload

HangSpec ==
  /\ Init /\ [][HangNext]_vars
  /\ WF_vars(TimerFire(HangSteps, HangReads))
  /\ WF_vars(SensorTimeout)
  /\ WF_vars(ConfigReload)

\* a boiler that overshoots the target of 100 C by 1 C and falls back to 96 C
ApproachTemps == {960, 1010}

ApproachNext ==
  \/ TimerFireIdle(ExitReads)
  \/ SensorValid(ApproachTemps, RecoveryOutputs)
  \/ ConfigReload

ApproachSpec == Init /\ [][ApproachNext]_vars

\* heating starts of a cold boiler while config.json is edited
SnapshotNext ==
  \/ TimerFire(HeatReads, HeatReads)
  \/ SensorValid(HeatTemps, HeatOutputs)
  \/ ConfigWrite(MaxConfigWrites)

SnapshotSpec == Init /\ [][SnapshotNext]_vars

\* the mode controller of the web server
ModeNext ==
  \/ SetModeRequest(MaxModeOps)
  \/ GetMode(MaxModeOps)
  \/ SteamTimeout
  \/ Elapse(MaxModeSeconds)
  \/ ConfigWrite(MaxConfigWrites)

ModeSpec == Init /\ [][ModeNext]_vars

\* the command interface of the web server
CmdNext ==
  \/ SetModeRequest(MaxCmdOps)
  \/ SetTargetRequest(MaxCmdOps)
  \/ SetGainsRequest(MaxCmdOps)
  \/ UpdateGainRequest(MaxCmdOps)
  \/ ConfigWrite(MaxConfigWrites)

CmdSpec == Init /\ [][CmdNext]_vars

\* ----------------------------------------------------------------- claims
\* the last handler did this
Did(tag) == \E i \in DOMAIN fx.log : fx.log[i] = tag

\* the pin exists and is usable
PinAvailable == gpioAvailable /\ boiler

\* the handlers of a failed read
FailKinds == {"exit_fail", "parse_fail", "range_fail", "spawn_error", "timeout"}

\* C1: after a tick with a valid reading at or above the loaded target
\* temperature, every duty the tick wrote is 0, and with the pin available
\* the tick wrote exactly once and the pin is at 0, whatever calculate()
\* returned
C1_AtOrAboveTargetWritesZero ==
  (fx.kind = "valid" /\ fx.temp >= target_temp) =>
     /\ \A i \in DOMAIN fx.writes : fx.writes[i] = 0
     /\ PinAvailable => fx.writes = <<0>> /\ pwm = 0

\* a reading equal to the target, the engine asked for full power, 0 was written
C1_Witness ==
  /\ fx.kind = "valid"
  /\ fx.temp = target_temp
  /\ fx.raw > MAX_OUTPUT
  /\ fx.writes = <<0>>
  /\ pwm = 0

\* C2: after a tick with a valid reading above MAX_SAFE_TEMP, the write of 0
\* was the first effect of the tick (with the pin available), calculate() was
\* not called, nothing was pushed, classified or enqueued, and
\* consecutiveFailures is at least MAX_CONSECUTIVE_FAILURES
C2_OvertempShutsDownFirst ==
  (fx.kind = "valid" /\ fx.temp > MAX_SAFE_TEMP) =>
     /\ PinAvailable => Len(fx.log) > 0 /\ fx.log[1] = "write" /\ fx.writes = <<0>> /\ pwm = 0
     /\ ~Did("step") /\ ~Did("init") /\ ~Did("push") /\ ~Did("classify")
     /\ ~Did("enqueue") /\ ~Did("publish")
     /\ consecutiveFailures >= MAX_CONSECUTIVE_FAILURES

\* an overtemperature tick with the pin available that began with no failure counted
C2_Witness ==
  /\ fx.kind = "valid"
  /\ fx.temp > MAX_SAFE_TEMP
  /\ fx.failuresBefore = 0
  /\ fx.log = <<"write", "latch">>
  /\ consecutiveFailures = MAX_CONSECUTIVE_FAILURES

\* C4: every duty a handler wrote to the pin, in a nominal tick, under the
\* setpoint override, in the emergency branch, in the failure shutdown or at
\* process exit, is an integer from 0 to MAX_OUTPUT, and so is the pin's duty
\* once it has been written
C4_DutyInRange ==
  /\ \A i \in DOMAIN fx.writes : fx.writes[i] \in 0..MAX_OUTPUT
  /\ pwm # -1 => pwm \in 0..MAX_OUTPUT

\* the engine asked for more than MAX_OUTPUT below the target and MAX_OUTPUT was written
C4_Witness ==
  /\ fx.kind = "valid"
  /\ fx.temp < target_temp
  /\ fx.raw > MAX_OUTPUT
  /\ fx.writes = <<MAX_OUTPUT>>

C3_FiveFailuresHeaterOff ==
  (failedSinceValid >= MAX_CONSECUTIVE_FAILURES /\ PinAvailable) => ~(pwm > 0)

\* C9: a handler of a failed read whose child ended (non-zero exit,
\* unparseable output, out-of-range value, spawn error) leaves
\* consecutiveFailures exactly 1 above what it was, and a tick with a valid
\* reading below MAX_SAFE_TEMP leaves it at 0
C9_FailureCountsOnce ==
  /\ fx.kind \in FailKinds \ {"timeout"} => consecutiveFailures = fx.failuresBefore + 1
  /\ (fx.kind = "valid" /\ fx.temp <= MAX_SAFE_TEMP) => consecutiveFailures = 0

\* C10: a tick with a valid reading that classifies heating right after a tick
\* with a valid reading that classified off rebuilds the engine, and its last
\* calculate() ran on an engine that had not been stepped
C10_HeatingStartResetsEngine ==
  (fx.kind = "valid" /\ fx.prevState = "off" /\ fx.state = "heating") =>
     /\ Did("init")
     /\ fx.stepAges[Len(fx.stepAges)] = 0

\* C6: after the callback of the steam timeout has run, the mode is espresso,
\* no timer is held, the saved target is the espresso temperature and the
\* last event emitted is mode_change with reason steam_timeout
C6_SteamAlwaysEnds ==
  fx.kind = "steam_timeout" =>
     /\ currentMode = "espresso"
     /\ steamTimer = NoTimer
     /\ configFile.target_temperature = configFile.espresso_temperature
     /\ Len(events) > 0
     /\ events[Len(events)].reason = "steam_timeout"

\* C7: the mode changes only in a set_mode request or in the steam timeout,
\* which takes steam to espresso at or after its deadline; a timeout can
\* fire only in steam mode, so none is pending after a set_mode to off or
\* espresso that succeeded
C7_OnlyTheWatchdogChangesModeAlone ==
  /\ currentMode # fx.modeBefore =>
        \/ fx.kind = "set_mode"
        \/ /\ fx.kind = "steam_timeout"
           /\ fx.modeBefore = "steam"
           /\ currentMode = "espresso"
           /\ now >= fx.deadlineBefore
  /\ steamTimer.live => currentMode = "steam"
  /\ (fx.kind = "set_mode" /\ ~Did("throw") /\ currentMode # "steam") => steamTimer = NoTimer

\* the machine was switched off in steam mode and the deadline of the
\* cancelled watchdog has passed
C7_Witness ==
  /\ currentMode = "off"
  /\ cancelledDeadline > 0
  /\ now >= cancelledDeadline
  /\ fx.kind = "elapse"
  /\ events = <<>>

\* C11: a tick rebuilds the engine for a heating start only when no such
\* rebuild has happened since the last tick classified off (or since the
\* start), and pidResetOnHeatingStart is clear exactly in that case, so only
\* a tick classified off re-arms the reset
C11_OneResetPerHeatingCycle ==
  /\ Did("heat_reset") => fx.armedBefore
  /\ pidResetOnHeatingStart <=> ~resetArmed

\* a tick classified heating while the published state is still off, after
\* the reset of this heating cycle was done: no second reset
C11_Witness ==
  /\ fx.kind = "valid"
  /\ fx.state = "heating"
  /\ previousMachineState = "off"
  /\ ~fx.armedBefore
  /\ ~Did("heat_reset")
  /\ pidResetOnHeatingStart

\* C12: a GET /api/mode answered right after a set_mode to steam that
\* succeeded, with no time passed, reports mode steam and a
\* steam_time_remaining that is a number above d - 1 and at most d, d being
\* the seconds the watchdog was armed for; and a response whose mode is not
\* steam carries null
C12_RemainingAfterSteam ==
  /\ (fx.kind = "get_mode" /\ fx.after = "steam" /\ ~Did("throw")) =>
        /\ fx.reply.mode = "steam"
        /\ fx.reply.steam_time_remaining.t = "num"
        /\ fx.reply.steam_time_remaining.v * 1000 > steamTimer.idleTimeout - 1000
        /\ fx.reply.steam_time_remaining.v * 1000 <= steamTimer.idleTimeout
  /\ (fx.kind = "get_mode" /\ ~Did("throw") /\ fx.reply.mode # "steam") =>
        fx.reply.steam_time_remaining = Null

\* C13: the steam timeout is pending exactly when the stored mode is steam
C13_WatchdogArmedIffSteam ==
  steamTimer.live <=> currentMode = "steam"

\* C14: a request for steam is refused exactly when it carries a duration
\* outside 10..600, and a refused request changes neither the mode, the
\* timer, the config document nor the events; a request without a duration
\* that succeeds arms the timeout for 300 s
C14_SteamDurationValidated ==
  [][/\ fx'.kind = "bad_request" =>
          /\ fx'.state = "steam"
          /\ fx'.temp # 0
          /\ fx'.temp \notin 10..600
          /\ UNCHANGED <<configFile, currentMode, steamTimer, events, cancelledDeadline>>
     /\ (fx'.kind = "set_mode" /\ fx'.state = "steam") =>
          fx'.temp = 0 \/ fx'.temp \in 10..600
     /\ (fx'.kind = "set_mode" /\ fx'.state = "steam" /\ fx'.log = <<>>) =>
          /\ currentMode' = "steam"
          /\ steamTimer'.live
          /\ steamTimer'.deadline =
                now + (IF fx'.temp = 0 THEN 300 ELSE fx'.temp) * 1000]_vars

\* a request for 9 s was refused during steam and the timeout armed for the
\* longest duration is still pending
C14_Witness ==
  /\ fx.kind = "bad_request"
  /\ fx.temp = 9
  /\ currentMode = "steam"
  /\ steamTimer.live
  /\ steamTimer.idleTimeout = 600 * 1000

\* C19: a set_mode request that changed the mode has emitted mode_change
\* with the new mode and reason manual as the last event
C19_ManualChangeEmitsEvent ==
  (fx.kind = "set_mode" /\ ~Did("throw") /\ currentMode # fx.modeBefore) =>
     /\ Len(events) > 0
     /\ events[Len(events)] =
          [name |-> "mode_change", mode |-> currentMode, reason |-> "manual"]

\* the setpoint of a mode as the configuration stores it
StoredSetpoint(cfg, mode) ==
  IF mode = "off" THEN Num(0)
  ELSE IF mode = "steam" THEN cfg.steam_temperature ELSE cfg.espresso_temperature

\* C15: after a set_mode that succeeded, target_temperature in the
\* configuration is the setpoint of the mode: 0 for off, the stored
\* espresso_temperature for espresso, the stored steam_temperature for steam
C15_TargetIsSetpointOfMode ==
  (fx.kind = "set_mode" /\ ~Did("throw")) =>
     configFile.target_temperature = StoredSetpoint(configFile, currentMode)

C17_PreferencesWithin80To150 ==
  /\ configFile.espresso_temperature.t = "num"
  /\ configFile.espresso_temperature.v \in 800..1500
  /\ configFile.steam_temperature.t = "num"
  /\ configFile.steam_temperature.v \in 800..1500

\* the ranges initializePID accepts
GainsAccepted(cfg) ==
  /\ cfg.proportional.v \in 0..1000
  /\ cfg.integral.v \in 0..500
  /\ cfg.derivative.v \in 0..10000
  /\ cfg.recovery_proportional.v \in 0..1000
  /\ cfg.recovery_integral.v \in 0..500
  /\ cfg.recovery_derivative.v \in 0..10000

\* C18: a call that sets gains is refused when a gain is outside 0..10,
\* 0..5, 0..100 and then changes nothing, so that the gains in the
\* configuration after a command are the ones the control loop accepts
C18_StoredGainsAccepted ==
  /\ (fx.kind \in {"set_gains", "update_gain"} /\ ~Did("throw")) =>
        GainsAccepted(configFile)
  /\ fx.kind = "bad_gains" =>
        \/ fx.temp < 0
        \/ fx.state \notin validParams \cup {"gains"}
        \/ fx.temp > (IF Includes(fx.state, "proportional") \/ fx.state = "gains" THEN 1000
                      ELSE IF Includes(fx.state, "integral") THEN 500 ELSE 10000)

\* C20: whenever shouldRecordReading computes the trend, the change of the
\* temperature over the 60 s window is <= -0.3 and the output is above
\* 10 percent, the state it returns is off
C20_CoolingUnderDriveIsOff ==
  \A i \in DOMAIN fx.calls :
     LET c == fx.calls[i]
     IN (/\ c.trend
         /\ c.temperature - c.oldestTemp <= MIN_TEMP_FALL
         /\ OutputOver(c.out, 10)) => c.state = "off"

\* C21: after a valid tick whose classified state differs from the one of
\* the tick before, with config.json readable and writable, the file holds
\* the new machine_state and the time of this tick as machine_state_updated
C21_ClassifierChangePublished ==
  (/\ fx.kind = "valid"
   /\ fx.state # "none"
   /\ fx.prevState # "none"
   /\ fx.state # fx.prevState
   /\ configFile.ok
   /\ configFile.writable) =>
     /\ configFile.machine_state = fx.state
     /\ configFile.machine_state_updated = now

\* how many times the last handler did this
Count(tag) == Cardinality({i \in DOMAIN fx.log : fx.log[i] = tag})

\* C22: a valid tick below the emergency limit that the control loop
\* classified heating or ready has pushed exactly one record to writeBuffer
C22_ActiveTickEnqueuesOne ==
  (fx.kind = "valid" /\ fx.state \in {"heating", "ready"}) => Count("enqueue") = 1

\* C23: writeBuffer never holds more than 10 x BATCH_SIZE records
C23_BufferCapped ==
  Len(writeBuffer) <= 10 * BATCH_SIZE

\* C25: a valid tick that starts in recovery mode with a reading below
\* target - 5 ends in recovery mode, and one with a reading at or above
\* target - 5 ends in normal mode
C25_RecoveryHeldBelowExit ==
  (fx.kind = "valid" /\ fx.state # "none" /\ fx.recoveryBefore) =>
     (inRecoveryPhase <=> fx.temp < fx.target - 50)

\* the readings of the last 60 s, the one of this tick included
Window60 == Recent(temperatureHistory, now - RECOVERY_WINDOW_SECONDS * 1000)

\* the maximum of the last 60 s minus the reading of this tick is >= 5 and
\* the reading is below the target
DroppedBelowTarget ==
  /\ Len(Window60) > 0
  /\ MaxTemp(Window60) - fx.temp >= RECOVERY_DROP_THRESHOLD
  /\ fx.temp < fx.target

\* C26 as stated: a valid tick that starts in normal mode ends in recovery
\* mode exactly when the maximum of the last 60 s minus the reading is >= 5
\* and the reading is below the target
C26_EntersExactlyOnDrop ==
  (fx.kind = "valid" /\ fx.state # "none" /\ ~fx.recoveryBefore) =>
     (inRecoveryPhase <=> DroppedBelowTarget)

\* C26: a valid tick that starts in normal mode ends in recovery mode
\* exactly when the history holds at least 10 readings, at least 2 of them
\* of the last 60 s, the maximum of the last 60 s minus the reading is >= 5
\* and the reading is below the target
C26_EntersOnDropWithTenReadings ==
  (fx.kind = "valid" /\ fx.state # "none" /\ ~fx.recoveryBefore) =>
     (inRecoveryPhase <=>
        /\ Len(temperatureHistory) >= 10
        /\ Len(Window60) >= 2
        /\ DroppedBelowTarget)

\* the tenth reading is 85.0 after a maximum of 90.0: the drop is exactly 5.0
\* and the tick has entered recovery
C26_Witness ==
  /\ fx.kind = "valid"
  /\ ~fx.recoveryBefore
  /\ inRecoveryPhase
  /\ fx.temp = 850
  /\ MaxTemp(Window60) = 900
  /\ Len(temperatureHistory) = 10

\* C27: a run of the reload interval that finds config.json as the run
\* before it found it does not rebuild the engine
C27_SameFileKeepsEngine ==
  (/\ fx.kind = "reload"
   /\ fx.reloadedBefore.some
   /\ fx.reloadedBefore.file = configFile) => ~Did("init")

\* C28: when a run of the reload interval has loaded a readable config.json
\* whose target_temperature is missing, not a number or out of range, the
\* loaded target is the last-known-good target, 0 included
C28_InvalidTargetFallsBackToLastGood ==
  (/\ fx.kind = "reload"
   /\ Did("init")
   /\ configFile.ok
   /\ ~ValidNumber(configFile.target_temperature, 0, 2000)
   /\ fx.lkgBefore.some) => target_temp = fx.lkgBefore.target_temp

\* C29: in a valid tick below the emergency limit every call of the
\* classifier has used the target that the setpoint override used
C29_OneTargetPerTick ==
  (fx.kind = "valid" /\ fx.state # "none") =>
     \A i \in DOMAIN fx.calls : fx.calls[i].target = fx.target

\* C30: the reload interval of the control process never reads config.json
\* while it is empty or partly written
C30_ReloadReadsWholeDocument ==
  fx.kind = "reload" => configFile.ok

\* C31: when the control process has ended after it has driven the actuator,
\* the last duty written to the actuator is 0
C31_EndedProcessWroteZero ==
  (exited /\ gpioAvailable /\ pwm # -1) => pwm = 0

ChangedKeys ==
  {k \in DOMAIN GoodConfig \ {"ok", "writable"} : configFile'[k] # configFile[k]}

C34_LateWriteBeforeNextRead ==
  (fx.kind = "late_close" /\ Did("write")) => readsInFlight = 0

StoredOnce == \A i, j \in DOMAIN stored : stored[i] = stored[j] => i = j

\* a record of the buffer is, after the step, in the buffer, in the collection
\* or in a batch in flight
Kept(doc) ==
  \/ \E i \in DOMAIN writeBuffer' : writeBuffer'[i] = doc
  \/ \E i \in DOMAIN stored' : stored'[i] = doc
  \/ \E b \in DOMAIN pendingInserts' :
       \E i \in DOMAIN pendingInserts'[b] : pendingInserts'[b][i] = doc

\* C36: with the store connected no record is written to the collection twice
\* and no step drops a record that is neither written nor in flight
C36_RecordsStoredExactlyOnce ==
  /\ []StoredOnce
  /\ [][mongoConnected =>
         /\ \A i \in DOMAIN writeBuffer : Kept(writeBuffer[i])
         /\ \A b \in DOMAIN pendingInserts :
              \A i \in DOMAIN pendingInserts[b] : Kept(pendingInserts[b][i])]_vars

\* C37: the write of a set_target handler leaves machine_state and
\* machine_state_updated as the control process last wrote them
C37_CommandWriteKeepsMachineState ==
  [][(openWrite.some /\ ~openWrite'.some) =>
       /\ configFile'.machine_state = configFile.machine_state
       /\ configFile'.machine_state_updated = configFile.machine_state_updated]_vars

C39_StartedTickEnds ==
  /\ controlLoopRunning ~> ~controlLoopRunning
  /\ [](controlLoopRunning => now - readStart <= TEMP_READ_TIMEOUT)

C39_Witness ==
  fx.kind = "spawn" /\ reads = 2 /\ lingering = 1 /\ controlLoopRunning

\* C40: after a valid tick below the emergency limit whose reading is at or
\* above target - 5 the engine is in normal mode
C40_NormalModeNearTarget ==
  (fx.kind = "valid" /\ fx.state # "none" /\ fx.temp >= fx.target - 50) => ~inRecoveryPhase

====
